---- MODULE Spec2Model ----
(***************************************************************************)
(* copynotice: a model of src/main.cpp.                                    *)
(*                                                                         *)
(* Files are sequences of bytes; a byte is one of the tokens "/", "x",     *)
(* "n", "CR", "LF".  Paths are sequences of tokens: directory and file     *)
(* names and the separators "\\" and "/", joined the way the code joins    *)
(* its wide strings.                                                       *)
(***************************************************************************)
EXTENDS Integers, Sequences, FiniteSets, TLC

VARIABLES
    pc,                     \* position in wmain / init / execute / iterate / create_file
    exitCode,               \* -1 while running, else the value wmain returned
    Args,                   \* wmain: the command line after the program name
    argIdx,                 \* init: argIdx of the argument loop
    mVerbose,               \* instance::mVerbose
    noticeSources,          \* history: the arguments that assigned mNotice, in order
    mRecurse,               \* instance::mRecurse
    mReplace,               \* instance::mReplace
    mCommentPrefix,         \* instance::mCommentPrefix (without the terminating null)
    mDirectories,           \* instance::mDirectories
    mExtensions,            \* instance::mExtensions
    mNotice,                \* instance::mNotice
    mAlwaysOverwriteFiles,  \* instance::mAlwaysOverwriteFiles
    mLastRead,              \* console::mLastRead
    conIn,                  \* the characters entered at the console and not yet read
    numRead,                \* console::read: local numRead
    entered,                \* history: the lines entered during the current console::read
    argDirs,                \* the /dir pairs of the command line, in order
    tree,                   \* the source directory tree: resolved path -> kind
    dstDirs,                \* the destination directories that exist on disk
    srcFS,                  \* source files: path -> [kind, data]
    dstFS,                  \* destination files: path -> [exists, data]
    newDirectories,         \* init: local newDirectories
    initIdx,                \* init: index of the range-for loop in progress
    dirIdx, extIdx,         \* execute: positions of the two range-for loops
    filesCreated,           \* execute: local filesCreated
    iterCreated,            \* iterate: local filesCreated
    findData,               \* iterate: findData.cFileName of the current entry
    findRemaining,          \* iterate: entries the find handle has not returned yet
    srcPos,                 \* create_file: file pointer of srcFile
    dstPath,                \* create_file: local dstPath
    firstCodeLine,          \* create_file: local firstCodeLine
    noticeOffset,           \* create_file: local noticeOffset
    commentEndPos,          \* create_file: local commentEndPos
    cfResult,               \* create_file: which return statement was taken
    prompts,                \* history: overwrite prompts issued so far
    yesAnswers              \* history: affirmative answers given so far

vars == <<pc, exitCode, Args, argIdx, mVerbose, noticeSources, mRecurse, mReplace, mCommentPrefix, mDirectories, mExtensions,
          mNotice, mAlwaysOverwriteFiles, mLastRead, conIn, numRead, entered, argDirs, tree, dstDirs, srcFS, dstFS,
          newDirectories, initIdx, dirIdx, extIdx, filesCreated, iterCreated,
          findData, findRemaining, srcPos, dstPath, firstCodeLine, noticeOffset,
          commentEndPos, cfResult, prompts, yesAnswers>>

\* what the argument loop of init reads and assigns
cfgVars == <<Args, argIdx, mVerbose, noticeSources, mRecurse, mReplace, mCommentPrefix,
             mExtensions, mNotice>>
envVars == <<argDirs, tree, srcFS>>
initVars == <<newDirectories, initIdx>>
execVars == <<dirIdx, extIdx, filesCreated>>
iterVars == <<iterCreated, findData, findRemaining>>
cfVars == <<srcPos, dstPath, firstCodeLine, noticeOffset, commentEndPos, cfResult>>
histVars == <<prompts, yesAnswers>>
conVars == <<conIn, numRead, entered>>

----------------------------------------------------------------------------
(* Bounds of the model *)

MaxNodes == 3        \* entries below the source root (SpecDirs)
MaxLines == 3        \* lines of a source file (SpecFile)
MaxNoticeLen == 4    \* bytes of a notice (SpecNotice)
MaxDirs == 2         \* configured /dir pairs
MaxExts == 1         \* configured /ext arguments
MaxArgs == 2         \* arguments of a command line after its fixed beginning (SpecArgs)
MaxEntered == 2      \* lines entered while one console::read is in progress (SpecConsole)

----------------------------------------------------------------------------
(* Bytes and strings *)

CR == "CR"
LF == "LF"
newline == <<CR, LF>>
ReadBufferSize == 64

MinOf(S) == CHOOSE x \in S : \A y \in S : x <= y

SeqsUpTo(S, n) == UNION {[1..k -> S] : k \in 0..n}

\* std::basic_string::starts_with
StartsWith(s, p) == Len(p) <= Len(s) /\ SubSeq(s, 1, Len(p)) = p

\* std::u8string::find(u8"\r\n", off): the 0-based positions at or after off
\* where CR LF stands; the empty set is npos.
FindCRLF(s, off) == {i \in off..(Len(s) - 2) : s[i + 1] = CR /\ s[i + 2] = LF}

\* wdul::freadline: the line at the file pointer without its terminator, the
\* file pointer after the terminator; ok is FALSE at end of file.
freadline(data, pos) ==
    IF pos >= Len(data)
    THEN [ok |-> FALSE, line |-> <<>>, pos |-> pos]
    ELSE LET c == FindCRLF(data, pos)
         IN  IF c = {}
             THEN [ok |-> TRUE, line |-> SubSeq(data, pos + 1, Len(data)), pos |-> Len(data)]
             ELSE [ok |-> TRUE, line |-> SubSeq(data, pos + 1, MinOf(c)), pos |-> MinOf(c) + 2]

\* wdul::fread: up to size bytes from the file pointer.
fread(data, pos, size) ==
    LET n == IF Len(data) - pos < size THEN Len(data) - pos ELSE size
    IN  SubSeq(data, pos + 1, pos + n)

\* wdul::fwrite: the file with the bytes appended.
fwrite(file, bytes) == [file EXCEPT !.data = @ \o bytes]

----------------------------------------------------------------------------
(* Paths *)

SEP == "\\"

\* srcPath of create_file, targetFilename of iterate
SrcPath(src, name) == IF src = <<>> THEN <<name>> ELSE src \o <<SEP, name>>

\* dstPath of create_file
DstPath(dst, name) == dst \o <<SEP>> \o <<name>>

FileNames == {"f.h", "g.h", "f.c"}
ExtOf(name) == IF name = "f.c" THEN "c" ELSE "h"
Exts == {"h", "c"}

Directories == mDirectories[dirIdx]
Extension == mExtensions[extIdx]
srcPath == SrcPath(Directories.src, findData)
srcData == srcFS[srcPath].data

\* FindFirstFileW(targetFilename): the entries matching <src>\*.<ext>
Matches(src, ext) ==
    {n \in FileNames : srcFS[SrcPath(src, n)].kind # "none" /\ ExtOf(n) = ext}

----------------------------------------------------------------------------
(* Console *)

AnswerYes == {<<"y">>, <<"y", "e", "s">>}
AnswerNo == {<<"n">>, <<"n", "o">>}
InputLines == {<<"y">>, <<"n", "o">>, <<"Y">>}

mWchBufferSize == 128

\* console::read(): the console hands over the entered line and its CR LF in
\* chunks of at most mWchBufferSize characters; the string is then cut to
\* numRead - 2 characters, numRead being the size of the last chunk.  (A last
\* chunk of fewer than two characters is not among the lines CF_Prompt draws;
\* Console_Read and Console_Resize below take the chunks one by one.)
ConsoleRead(line) ==
    LET all == line \o newline
        lastChunk == Len(all) % mWchBufferSize
    IN  IF lastChunk >= 2 THEN SubSeq(all, 1, lastChunk - 2) ELSE all

\* ask_yesno, one round of its loop
AskYesNo(str) ==
    IF str \in AnswerYes THEN "yes"
    ELSE IF str \in AnswerNo THEN "no"
    ELSE "invalid"

\* a line of n characters that begins with the given ones
Fill(begin, n) == begin \o [i \in 1..(n - Len(begin)) |-> "x"]

\* the lengths around the sizes at which a line and its CR LF fill whole buffers
LongLengths ==
    {k * mWchBufferSize + d : k \in 1..2, d \in {-3, -2, -1, 0, 1}}

\* the lines a user enters at the overwrite prompt
EnteredLines ==
    AnswerYes \cup AnswerNo \cup {<<>>, <<"Y">>, <<"y", "e">>, <<"n", "o", "x">>}
    \cup {Fill(b, n) : b \in {<<>>, <<"y">>, <<"n", "o">>}, n \in LongLengths}

\* what console::read and ask_yesno leave alone
besideConsoleVars == <<exitCode, cfgVars, mDirectories, mAlwaysOverwriteFiles, envVars,
                       dstDirs, dstFS, initVars, execVars, iterVars, cfVars, histVars>>

\* ask_yesno: Console.read() clears mLastRead and calls read(mLastRead)
AskYesNo_Read ==
    /\ pc = "ask"
    /\ mLastRead' = <<>>
    /\ entered' = <<>>
    /\ pc' = "read"
    /\ UNCHANGED <<conIn, numRead, besideConsoleVars>>

\* mInput.read waits on an empty console: the user enters a line
Console_Enter ==
    /\ pc = "read"
    /\ conIn = <<>>
    /\ Len(entered) < MaxEntered
    /\ \E line \in EnteredLines :
          /\ conIn' = line \o newline
          /\ entered' = Append(entered, line)
    /\ UNCHANGED <<pc, mLastRead, numRead, besideConsoleVars>>

\* one round of the do-while loop: numRead = mInput.read(mWchBuffer), append
Console_Read ==
    /\ pc = "read"
    /\ conIn # <<>>
    /\ numRead' = MinOf({Len(conIn), mWchBufferSize})
    /\ mLastRead' = mLastRead \o SubSeq(conIn, 1, numRead')
    /\ conIn' = SubSeq(conIn, numRead' + 1, Len(conIn))
    /\ pc' = IF numRead' = mWchBufferSize THEN "read" ELSE "read_resize"
    /\ UNCHANGED <<entered, besideConsoleVars>>

\* the length Str.resize is called with: numRead of the last round, less two
ResizeLength == numRead - 2

\* if (Str.ends_with(L"\r\n")) Str.resize(numRead - 2).  numRead is unsigned:
\* below two the difference wraps to a length near 2^32, and the resize either
\* throws or pads the string with null characters ("NUL" stands for them).
Console_Resize ==
    /\ pc = "read_resize"
    /\ IF Len(mLastRead) >= 2 /\ SubSeq(mLastRead, Len(mLastRead) - 1, Len(mLastRead)) = newline
       THEN IF ResizeLength >= 0
            THEN /\ mLastRead' = SubSeq(mLastRead, 1, ResizeLength)
                 /\ pc' = "ask_test"
            ELSE \/ /\ pc' = "throw"
                    /\ UNCHANGED mLastRead
                 \/ /\ mLastRead' = mLastRead \o <<"NUL">>
                    /\ pc' = "ask_test"
       ELSE /\ pc' = "ask_test"
            /\ UNCHANGED mLastRead
    /\ UNCHANGED <<conVars, besideConsoleVars>>

\* ask_yesno: the comparisons of last_read(); "Invalid input" and the next round
AskYesNo_Test ==
    /\ pc = "ask_test"
    /\ pc' = CASE AskYesNo(mLastRead) = "yes" -> "ask_true"
              [] AskYesNo(mLastRead) = "no" -> "ask_false"
              [] OTHER -> "ask"
    /\ UNCHANGED <<mLastRead, conVars, besideConsoleVars>>

----------------------------------------------------------------------------
(* init: the directories *)

ROOT == "A"
ChildNames == <<"B", "C">>
Separators == {"\\", "/"}

\* the directory a path string names: its components
Resolve(path) == SelectSeq(path, LAMBDA t : t \notin Separators)

KindOf(p) ==
    IF p = <<ROOT>> THEN "dir"
    ELSE IF p \in DOMAIN tree THEN tree[p] ELSE "none"

\* what FindFirstFileW / FindNextFileW on <src>\* return, in order
Listing(p) ==
    LET kids == SelectSeq(ChildNames, LAMBDA c : KindOf(p \o <<c>>) # "none")
    IN  <<[name |-> ".", kind |-> "dir"], [name |-> "..", kind |-> "dir"]>>
        \o [i \in 1..Len(kids) |-> [name |-> kids[i], kind |-> KindOf(p \o <<kids[i]>>)]]

\* the three tests of the loop of target_directories
EntryTargetedHiddenToo(e) == e.kind \in {"dir", "hidden"} /\ e.name \notin {".", ".."}
EntryTargeted(e) ==
    /\ e.kind \in {"dir", "hidden"}     \* FILE_ATTRIBUTE_DIRECTORY
    /\ e.kind # "hidden"                \* FILE_ATTRIBUTE_HIDDEN
    /\ e.name \notin {".", ".."}

\* newDirectory of target_directories
NewDirectory(Dirs, name) ==
    [src |-> (IF Dirs.src # <<>> THEN Dirs.src \o <<SEP>> ELSE Dirs.src) \o <<name>>,
     dst |-> Dirs.dst \o <<SEP>> \o <<name>>]

RECURSIVE target_directories(_), TargetEntries(_, _)

\* the do-while loop of target_directories over the entries not yet returned
TargetEntries(Dirs, entries) ==
    IF entries = <<>> THEN <<>>
    ELSE LET e == Head(entries)
             newDirectory == NewDirectory(Dirs, e.name)
         IN  (IF EntryTargeted(e)
              THEN <<newDirectory>> \o target_directories(newDirectory)
              ELSE <<>>)
             \o TargetEntries(Dirs, Tail(entries))

\* target_directories with mRecurse set: what it appends to NewDirectories
target_directories(Dirs) == TargetEntries(Dirs, Listing(Resolve(Dirs.src)))

\* for (directories : mDirectories) target_directories(directories, newDirectories)
Init_Target ==
    /\ pc = "init_target"
    /\ IF initIdx > Len(mDirectories)
       THEN /\ pc' = "init_dedup"
            /\ initIdx' = 1
            /\ UNCHANGED newDirectories
       ELSE IF ~mRecurse
       THEN /\ initIdx' = initIdx + 1
            /\ UNCHANGED <<pc, newDirectories>>
       ELSE IF KindOf(Resolve(mDirectories[initIdx].src)) \notin {"dir", "hidden"}
       THEN \* FindFirstFileW fails
            /\ pc' = "throw"
            /\ UNCHANGED <<initIdx, newDirectories>>
       ELSE /\ newDirectories' = newDirectories \o target_directories(mDirectories[initIdx])
            /\ initIdx' = initIdx + 1
            /\ pc' = pc
    /\ UNCHANGED <<exitCode, cfgVars, mDirectories, mAlwaysOverwriteFiles, mLastRead, conVars,
                   envVars, dstDirs, dstFS, execVars, iterVars, cfVars, histVars>>

\* alreadyTargeted after the inner loop
AlreadyTargetedNever(newDirectoryArg) == FALSE
AlreadyTargeted(newDirectoryArg) ==
    \E i \in 1..Len(mDirectories) : mDirectories[i].src = newDirectoryArg.src

\* for (newDirectoryArg : newDirectories): one round
Init_Dedup ==
    /\ pc = "init_dedup"
    /\ IF initIdx > Len(newDirectories)
       THEN /\ pc' = "init_mkdir"
            /\ initIdx' = 1
            /\ UNCHANGED mDirectories
       ELSE /\ mDirectories' = IF AlreadyTargeted(newDirectories[initIdx])
                               THEN mDirectories
                               ELSE Append(mDirectories, newDirectories[initIdx])
            /\ initIdx' = initIdx + 1
            /\ pc' = pc
    /\ UNCHANGED <<exitCode, cfgVars, mAlwaysOverwriteFiles, mLastRead, conVars, envVars, dstDirs,
                   dstFS, newDirectories, execVars, iterVars, cfVars, histVars>>

\* for (directories : mDirectories) CreateDirectoryW(directories.dst): one round,
\* and return true after the last
Init_CreateDirectory ==
    /\ pc = "init_mkdir"
    /\ IF initIdx > Len(mDirectories)
       THEN /\ pc' = "execute"
            /\ UNCHANGED <<initIdx, dstDirs>>
       ELSE LET d == Resolve(mDirectories[initIdx].dst)
            IN  IF d \in dstDirs
                THEN \* ERROR_ALREADY_EXISTS
                     /\ initIdx' = initIdx + 1
                     /\ UNCHANGED <<pc, dstDirs>>
                ELSE IF Len(d) = 1 \/ SubSeq(d, 1, Len(d) - 1) \in dstDirs
                THEN /\ dstDirs' = dstDirs \cup {d}
                     /\ initIdx' = initIdx + 1
                     /\ pc' = pc
                ELSE \* ERROR_PATH_NOT_FOUND
                     /\ pc' = "throw"
                     /\ UNCHANGED <<initIdx, dstDirs>>
    /\ UNCHANGED <<exitCode, cfgVars, mDirectories, mAlwaysOverwriteFiles, mLastRead, conVars,
                   envVars, dstFS, newDirectories, execVars, iterVars, cfVars, histVars>>

----------------------------------------------------------------------------
(* init: the argument loop *)

\* A command-line string is the sequence of its characters; Args[i] is ArgV[i]
\* and ArgC is one more than the number of strings after the program name.
ArgC == Len(Args) + 1
arg == Args[argIdx]

argument_names ==
    << <<"d", "i", "r">>, <<"e", "x", "t">>, <<"n", "o", "t", "e">>,
       <<"n", "o", "t", "e", "f">>, <<"r", "e", "c", "u", "r", "s", "e">>,
       <<"r", "e", "p", "l", "a", "c", "e">>, <<"s", "y", "n", "t", "a", "x">>,
       <<"v", "e", "r", "b", "o", "s", "e">> >>

get_max_argument_name_length ==
    CHOOSE n \in {Len(argument_names[i]) : i \in DOMAIN argument_names} :
        \A i \in DOMAIN argument_names : Len(argument_names[i]) <= n

\* 0 is argument_name_id::unknown
find_argument_name_id(String) ==
    IF \E i \in DOMAIN argument_names : argument_names[i] = String
    THEN CHOOSE i \in DOMAIN argument_names : argument_names[i] = String
    ELSE 0

\* the characters copied into argName: those after the slash, as many as fit
argName == SubSeq(arg, 2, MinOf({Len(arg), get_max_argument_name_length + 1}))

\* ++argIdx == ArgC || ArgV[argIdx][0] == L'/', for the incremented index i
NoSubargument(i) == i = ArgC \/ (Args[i] # <<>> /\ Args[i][1] = "/")

EndsWithSlash(s) == s # <<>> /\ s[Len(s)] \in Separators
IllegalPathCharacters == {"<", ">", ":", "\"", "|", "?", "*"}
IllegalExtensionCharacters == IllegalPathCharacters \cup {"/", "\\", "."}
ContainsAny(s, chars) == \E i \in 1..Len(s) : s[i] \in chars
MaxExtensionLength == 15
maxCommentLength == 15

\* wdul::utf16_to_utf8: one byte for an ASCII character, two for U+00E9
RECURSIVE utf16_to_utf8(_)
utf16_to_utf8(s) ==
    IF s = <<>> THEN <<>>
    ELSE (IF Head(s) = "e'" THEN <<"xC3", "xA9">> ELSE <<Head(s)>>)
         \o utf16_to_utf8(Tail(s))

\* the extension as the file names of the model carry it: they have extensions
\* of one character, and a longer extension matches none of them
ExtensionName(ext) == IF Len(ext) = 1 THEN ext[1] ELSE ""

\* the files /notef can name, with their contents; no other file exists
NoticeFiles == [f \in {<<"N">>, <<"Z">>} |-> IF f = <<"N">> THEN <<"n">> ELSE <<>>]

\* what the argument loop leaves alone
afterArgsVars == <<exitCode, mAlwaysOverwriteFiles, mLastRead, conVars, tree, srcFS, dstDirs, dstFS,
                   initVars, execVars, iterVars, cfVars, histVars>>

\* if (ArgC < 2): the help text, return false
Init_Begin ==
    /\ pc = "init"
    /\ pc' = IF ArgC < 2 THEN "init_false" ELSE "init_args"
    /\ UNCHANGED <<cfgVars, mDirectories, argDirs, afterArgsVars>>

\* the loop is at an argument whose name is the given one
AtArgument(name) ==
    /\ pc = "init_args"
    /\ argIdx < ArgC
    /\ arg # <<>> /\ arg[1] = "/"
    /\ find_argument_name_id(argName) = find_argument_name_id(name)

\* the string is no argument name, or the name is unknown
Init_Unknown ==
    /\ pc = "init_args"
    /\ argIdx < ArgC
    /\ \/ arg = <<>>
       \/ arg[1] # "/"
       \/ find_argument_name_id(argName) = 0
    /\ pc' = "init_false"
    /\ UNCHANGED <<cfgVars, mDirectories, argDirs, afterArgsVars>>

\* case dir
Init_Dir ==
    /\ AtArgument(<<"d", "i", "r">>)
    /\ IF NoSubargument(argIdx + 1)
       THEN /\ pc' = "init_false"
            /\ UNCHANGED <<argIdx, mDirectories>>
       ELSE LET src == Args[argIdx + 1]
            IN  IF EndsWithSlash(src) \/ NoSubargument(argIdx + 2)
                THEN /\ mDirectories' = Append(mDirectories, [src |-> src, dst |-> <<>>])
                     /\ pc' = "init_false"
                     /\ UNCHANGED argIdx
                ELSE LET dst == Args[argIdx + 2]
                     IN  /\ mDirectories' = Append(mDirectories, [src |-> src, dst |-> dst])
                         /\ IF \/ dst = <<>>
                               \/ EndsWithSlash(dst)
                               \/ ContainsAny(src, IllegalPathCharacters)
                               \/ ContainsAny(dst, IllegalPathCharacters)
                            THEN pc' = "init_false" /\ UNCHANGED argIdx
                            ELSE pc' = pc /\ argIdx' = argIdx + 3
    /\ UNCHANGED <<Args, mVerbose, noticeSources, mRecurse, mReplace, mCommentPrefix,
                   mExtensions, mNotice, argDirs, afterArgsVars>>

\* case ext
Init_Ext ==
    /\ AtArgument(<<"e", "x", "t">>)
    /\ IF NoSubargument(argIdx + 1)
       THEN /\ pc' = "init_false"
            /\ UNCHANGED <<argIdx, mExtensions>>
       ELSE LET extension == Args[argIdx + 1]
            IN  IF Len(extension) > MaxExtensionLength \/ Len(extension) = 0
                THEN /\ pc' = "init_false"
                     /\ UNCHANGED <<argIdx, mExtensions>>
                ELSE /\ mExtensions' = Append(mExtensions, ExtensionName(extension))
                     /\ IF ContainsAny(extension, IllegalExtensionCharacters)
                        THEN pc' = "init_false" /\ UNCHANGED argIdx
                        ELSE pc' = pc /\ argIdx' = argIdx + 2
    /\ UNCHANGED <<Args, mVerbose, noticeSources, mRecurse, mReplace, mCommentPrefix,
                   mNotice, mDirectories, argDirs, afterArgsVars>>

\* if (!mNotice.empty()): "Notice string already supplied"
NoticeSupplied == mNotice # <<>>

\* case note
Init_Note ==
    /\ AtArgument(<<"n", "o", "t", "e">>)
    /\ IF NoSubargument(argIdx + 1) \/ NoticeSupplied
       THEN /\ pc' = "init_false"
            /\ UNCHANGED <<argIdx, mNotice, noticeSources>>
       ELSE /\ mNotice' = utf16_to_utf8(Args[argIdx + 1])
            /\ noticeSources' = Append(noticeSources, "note")
            /\ argIdx' = argIdx + 2
            /\ pc' = pc
    /\ UNCHANGED <<Args, mVerbose, mRecurse, mReplace, mCommentPrefix, mExtensions,
                   mDirectories, argDirs, afterArgsVars>>

\* case notef
Init_Notef ==
    /\ AtArgument(<<"n", "o", "t", "e", "f">>)
    /\ IF NoSubargument(argIdx + 1) \/ NoticeSupplied
       THEN /\ pc' = "init_false"
            /\ UNCHANGED <<argIdx, mNotice, noticeSources>>
       ELSE IF Args[argIdx + 1] \notin DOMAIN NoticeFiles
       THEN \* fopen(open_existing) throws
            /\ pc' = "throw"
            /\ UNCHANGED <<argIdx, mNotice, noticeSources>>
       ELSE /\ mNotice' = NoticeFiles[Args[argIdx + 1]]
            /\ noticeSources' = Append(noticeSources, "notef")
            /\ argIdx' = argIdx + 2
            /\ pc' = pc
    /\ UNCHANGED <<Args, mVerbose, mRecurse, mReplace, mCommentPrefix, mExtensions,
                   mDirectories, argDirs, afterArgsVars>>

\* case recurse
Init_Recurse ==
    /\ AtArgument(<<"r", "e", "c", "u", "r", "s", "e">>)
    /\ IF mRecurse
       THEN pc' = "init_false" /\ UNCHANGED <<argIdx, mRecurse>>
       ELSE mRecurse' = TRUE /\ argIdx' = argIdx + 1 /\ pc' = pc
    /\ UNCHANGED <<Args, mVerbose, noticeSources, mReplace, mCommentPrefix, mExtensions,
                   mNotice, mDirectories, argDirs, afterArgsVars>>

\* case verbose
Init_Verbose ==
    /\ AtArgument(<<"v", "e", "r", "b", "o", "s", "e">>)
    /\ IF mVerbose
       THEN pc' = "init_false" /\ UNCHANGED <<argIdx, mVerbose>>
       ELSE mVerbose' = TRUE /\ argIdx' = argIdx + 1 /\ pc' = pc
    /\ UNCHANGED <<Args, noticeSources, mRecurse, mReplace, mCommentPrefix, mExtensions,
                   mNotice, mDirectories, argDirs, afterArgsVars>>

\* case syntax
Init_Syntax ==
    /\ AtArgument(<<"s", "y", "n", "t", "a", "x">>)
    /\ IF NoSubargument(argIdx + 1)
       THEN pc' = "init_false" /\ UNCHANGED <<argIdx, mCommentPrefix>>
       ELSE LET subargument == utf16_to_utf8(Args[argIdx + 1])
            IN  IF Len(subargument) > maxCommentLength \/ subargument = <<>>
                THEN pc' = "init_false" /\ UNCHANGED <<argIdx, mCommentPrefix>>
                ELSE /\ mCommentPrefix' = subargument
                     /\ argIdx' = argIdx + 2
                     /\ pc' = pc
    /\ UNCHANGED <<Args, mVerbose, noticeSources, mRecurse, mReplace, mExtensions,
                   mNotice, mDirectories, argDirs, afterArgsVars>>

\* case replace
Init_Replace ==
    /\ AtArgument(<<"r", "e", "p", "l", "a", "c", "e">>)
    /\ IF mReplace
       THEN pc' = "init_false" /\ UNCHANGED <<argIdx, mReplace>>
       ELSE mReplace' = TRUE /\ argIdx' = argIdx + 1 /\ pc' = pc
    /\ UNCHANGED <<Args, mVerbose, noticeSources, mRecurse, mCommentPrefix, mExtensions,
                   mNotice, mDirectories, argDirs, afterArgsVars>>

\* the argument loop ends: init goes on to expand the directories
Init_ArgsDone ==
    /\ pc = "init_args"
    /\ argIdx = ArgC
    /\ pc' = "init_target"
    /\ argDirs' = mDirectories
    /\ UNCHANGED <<cfgVars, mDirectories, afterArgsVars>>

\* if (!instance.init(ArgCount, Args)) return 1
Wmain_InitFalse ==
    /\ pc = "init_false"
    /\ exitCode' = 1
    /\ pc' = "exit"
    /\ UNCHANGED <<cfgVars, mDirectories, mAlwaysOverwriteFiles, mLastRead, conVars, envVars,
                   dstDirs, dstFS, initVars, execVars, iterVars, cfVars, histVars>>

NextArgs ==
    \/ Init_Begin
    \/ Init_Unknown
    \/ Init_Dir
    \/ Init_Ext
    \/ Init_Note
    \/ Init_Notef
    \/ Init_Recurse
    \/ Init_Verbose
    \/ Init_Syntax
    \/ Init_Replace
    \/ Init_ArgsDone
    \/ Wmain_InitFalse

----------------------------------------------------------------------------
(* execute, iterate *)

\* the position after (d, e) in the loops of execute
AdvanceLoops ==
    IF extIdx < Len(mExtensions)
    THEN dirIdx' = dirIdx /\ extIdx' = extIdx + 1
    ELSE dirIdx' = dirIdx + 1 /\ extIdx' = 1

MoreTargets == dirIdx <= Len(mDirectories) /\ Len(mExtensions) >= 1

\* iterate: FindFirstFileW on the next target
Execute_Iterate ==
    /\ pc = "execute"
    /\ MoreTargets
    /\ LET m == Matches(Directories.src, Extension)
       IN  IF m = {}
           THEN \* ERROR_FILE_NOT_FOUND: return 0
                /\ AdvanceLoops
                /\ UNCHANGED <<pc, filesCreated, iterVars>>
           ELSE \E n \in m :
                /\ findData' = n
                /\ findRemaining' = m \ {n}
                /\ iterCreated' = 0
                /\ pc' = "iter_entry"
                /\ UNCHANGED execVars
    /\ UNCHANGED <<exitCode, cfgVars, mDirectories, mAlwaysOverwriteFiles, mLastRead, conVars,
                   envVars, dstDirs, dstFS, initVars, cfVars, histVars>>

\* execute returns, wmain returns 0
Execute_Done ==
    /\ pc = "execute"
    /\ ~MoreTargets
    /\ pc' = "exit"
    /\ exitCode' = 0
    /\ UNCHANGED <<cfgVars, mDirectories, mAlwaysOverwriteFiles, mLastRead, conVars, envVars,
                   dstDirs, dstFS, initVars, execVars, iterVars, cfVars, histVars>>

\* iterate: the attribute tests on the entry found
Iterate_Entry ==
    /\ pc = "iter_entry"
    /\ pc' = IF srcFS[srcPath].kind \in {"hidden", "dir"} THEN "iter_next" ELSE "cf_open"
    /\ UNCHANGED <<exitCode, cfgVars, mDirectories, mAlwaysOverwriteFiles, mLastRead, conVars,
                   envVars, dstDirs, dstFS, initVars, execVars, iterVars, cfVars, histVars>>

\* whether create_file returned true
CreateFileReturnedEmptyFalse(r) == r = "written"
CreateFileReturnedAlways(r) == TRUE
CreateFileReturned(r) == r \in {"empty", "written"}

\* iterate: the use of create_file's result
Iterate_AfterCreate ==
    /\ pc = "cf_ret"
    /\ iterCreated' = IF CreateFileReturned(cfResult)
                      THEN iterCreated + 1
                      ELSE iterCreated
    /\ pc' = "iter_next"
    /\ srcPos' = 0
    /\ dstPath' = <<>>
    /\ firstCodeLine' = <<>>
    /\ noticeOffset' = 0
    /\ commentEndPos' = 0
    /\ cfResult' = "none"
    /\ UNCHANGED <<exitCode, cfgVars, mDirectories, mAlwaysOverwriteFiles, mLastRead, conVars,
                   envVars, dstDirs, dstFS, initVars, execVars, findData, findRemaining,
                   histVars>>

\* iterate: FindNextFileW, and the return to execute on ERROR_NO_MORE_FILES
Iterate_FindNext ==
    /\ pc = "iter_next"
    /\ IF findRemaining # {}
       THEN \E n \in findRemaining :
            /\ findData' = n
            /\ findRemaining' = findRemaining \ {n}
            /\ pc' = "iter_entry"
            /\ UNCHANGED <<iterCreated, execVars>>
       ELSE /\ filesCreated' = filesCreated + iterCreated
            /\ AdvanceLoops
            /\ iterCreated' = 0
            /\ findData' = ""
            /\ findRemaining' = {}
            /\ pc' = "execute"
    /\ UNCHANGED <<exitCode, cfgVars, mDirectories, mAlwaysOverwriteFiles, mLastRead, conVars,
                   envVars, dstDirs, dstFS, initVars, cfVars, histVars>>

----------------------------------------------------------------------------
(* create_file *)

fexists(path) == dstFS[path].exists

\* opens the source file, builds dstPath
CF_Open ==
    /\ pc = "cf_open"
    /\ srcPos' = 0
    /\ dstPath' = DstPath(Directories.dst, findData)
    /\ pc' = "cf_check"
    /\ UNCHANGED <<exitCode, cfgVars, mDirectories, mAlwaysOverwriteFiles, mLastRead, conVars,
                   envVars, dstDirs, dstFS, initVars, execVars, iterVars, firstCodeLine,
                   noticeOffset, commentEndPos, cfResult, histVars>>

\* the condition under which the overwrite prompt is written
MustAskAlways == fexists(dstPath)
MustAsk == ~mAlwaysOverwriteFiles /\ fexists(dstPath)

\* if (!mAlwaysOverwriteFiles) if (fexists(dstPath)): write the prompt
CF_Check ==
    /\ pc = "cf_check"
    /\ IF MustAsk
       THEN pc' = "cf_prompt" /\ prompts' = prompts + 1
       ELSE pc' = "cf_create" /\ prompts' = prompts
    /\ UNCHANGED <<exitCode, cfgVars, mDirectories, mAlwaysOverwriteFiles, mLastRead, conVars,
                   envVars, dstDirs, dstFS, initVars, execVars, iterVars, cfVars,
                   yesAnswers>>

\* ask_yesno: one line read from the console, and the branch on the answer
CF_Prompt ==
    /\ pc = "cf_prompt"
    /\ \E line \in InputLines :
        /\ mLastRead' = ConsoleRead(line)
        /\ LET a == AskYesNo(mLastRead')
           IN  CASE a = "yes" ->
                      /\ mAlwaysOverwriteFiles' = TRUE
                      /\ yesAnswers' = yesAnswers + 1
                      /\ pc' = "cf_create"
                      /\ cfResult' = cfResult
                 [] a = "no" ->
                      /\ pc' = "cf_ret"
                      /\ cfResult' = "declined"
                      /\ UNCHANGED <<mAlwaysOverwriteFiles, yesAnswers>>
                 [] OTHER ->
                      /\ pc' = "cf_prompt"
                      /\ UNCHANGED <<mAlwaysOverwriteFiles, yesAnswers, cfResult>>
    /\ UNCHANGED <<exitCode, cfgVars, mDirectories, envVars, dstDirs, dstFS, initVars,
                   execVars, iterVars, srcPos, dstPath, firstCodeLine, noticeOffset,
                   commentEndPos, prompts, conVars>>

CF_CreateOpenAlways ==
    /\ pc = "cf_create"
    /\ dstFS' = [dstFS EXCEPT ![dstPath] = [exists |-> TRUE, data |-> @.data]]
    /\ pc' = "cf_first"
    /\ UNCHANGED <<exitCode, cfgVars, mDirectories, mAlwaysOverwriteFiles, mLastRead, conVars,
                   envVars, dstDirs, initVars, execVars, iterVars, cfVars, histVars>>

\* fopen(dstPath, create_always): the file exists and is empty
CF_Create ==
    /\ pc = "cf_create"
    /\ dstFS' = [dstFS EXCEPT ![dstPath] = [exists |-> TRUE, data |-> <<>>]]
    /\ pc' = "cf_first"
    /\ UNCHANGED <<exitCode, cfgVars, mDirectories, mAlwaysOverwriteFiles, mLastRead, conVars,
                   envVars, dstDirs, initVars, execVars, iterVars, cfVars, histVars>>

\* firstCodeLine.starts_with(mCommentPrefix) and mReplace
SkipsComments(line) == StartsWith(line, mCommentPrefix) /\ mReplace

\* the first freadline, and the return on an empty source file
CF_ReadFirst ==
    /\ pc = "cf_first"
    /\ LET r == freadline(srcData, srcPos)
       IN  IF ~r.ok
           THEN /\ cfResult' = "empty"
                /\ pc' = "cf_ret"
                /\ UNCHANGED <<srcPos, firstCodeLine>>
           ELSE /\ firstCodeLine' = r.line
                /\ srcPos' = r.pos
                /\ cfResult' = cfResult
                /\ pc' = IF SkipsComments(r.line) THEN "cf_skip" ELSE "cf_notice"
    /\ UNCHANGED <<exitCode, cfgVars, mDirectories, mAlwaysOverwriteFiles, mLastRead, conVars,
                   envVars, dstDirs, dstFS, initVars, execVars, iterVars, dstPath,
                   noticeOffset, commentEndPos, histVars>>

\* one round of the loop that reads past the comment lines.  At end of file
\* freadline returns false; whether it has cleared the string by then is the
\* library's choice, so both outcomes are kept.
CF_Skip ==
    /\ pc = "cf_skip"
    /\ LET r == freadline(srcData, srcPos)
       IN  IF ~r.ok
           THEN /\ firstCodeLine' \in {r.line, firstCodeLine}
                /\ srcPos' = srcPos
                /\ pc' = "cf_notice"
           ELSE /\ firstCodeLine' = r.line
                /\ srcPos' = r.pos
                /\ pc' = IF StartsWith(r.line, mCommentPrefix) THEN "cf_skip" ELSE "cf_notice"
    /\ UNCHANGED <<exitCode, cfgVars, mDirectories, mAlwaysOverwriteFiles, mLastRead, conVars,
                   envVars, dstDirs, dstFS, initVars, execVars, iterVars, dstPath,
                   noticeOffset, commentEndPos, cfResult, histVars>>

\* commentEndPos of one round of the notice loop
CommentEndFirstOnly(off) == Len(mNotice)
CommentEnd(off) ==
    LET findResult == FindCRLF(mNotice, off)
    IN  IF findResult = {} THEN Len(mNotice) ELSE MinOf(findResult)

\* one round of the do-while loop that writes the notice
CF_WriteNoticeLine ==
    /\ pc = "cf_notice"
    /\ commentEndPos' = CommentEnd(noticeOffset)
    /\ dstFS' = [dstFS EXCEPT ![dstPath] =
                    fwrite(fwrite(fwrite(@, mCommentPrefix),
                                  SubSeq(mNotice, noticeOffset + 1, commentEndPos')),
                           newline)]
    /\ noticeOffset' = commentEndPos' + 2
    /\ pc' = IF commentEndPos' # Len(mNotice) THEN "cf_notice" ELSE "cf_line"
    /\ UNCHANGED <<exitCode, cfgVars, mDirectories, mAlwaysOverwriteFiles, mLastRead, conVars,
                   envVars, dstDirs, initVars, execVars, iterVars, srcPos, dstPath,
                   firstCodeLine, cfResult, histVars>>

\* writes the stored first line and a new line
CF_WriteFirstLine ==
    /\ pc = "cf_line"
    /\ dstFS' = [dstFS EXCEPT ![dstPath] = fwrite(fwrite(@, firstCodeLine), newline)]
    /\ pc' = "cf_copy"
    /\ UNCHANGED <<exitCode, cfgVars, mDirectories, mAlwaysOverwriteFiles, mLastRead, conVars,
                   envVars, dstDirs, initVars, execVars, iterVars, cfVars, histVars>>

\* one round of the loop that copies the rest of the source file
CF_Copy ==
    /\ pc = "cf_copy"
    /\ LET buf == fread(srcData, srcPos, ReadBufferSize)
       IN  IF Len(buf) = 0
           THEN /\ pc' = "cf_close"
                /\ UNCHANGED <<dstFS, srcPos>>
           ELSE /\ dstFS' = [dstFS EXCEPT ![dstPath] = fwrite(@, buf)]
                /\ srcPos' = srcPos + Len(buf)
                /\ pc' = "cf_copy"
    /\ UNCHANGED <<exitCode, cfgVars, mDirectories, mAlwaysOverwriteFiles, mLastRead, conVars,
                   envVars, dstDirs, initVars, execVars, iterVars, dstPath, firstCodeLine,
                   noticeOffset, commentEndPos, cfResult, histVars>>

\* dstFile.close(); return true
CF_Close ==
    /\ pc = "cf_close"
    /\ cfResult' = "written"
    /\ pc' = "cf_ret"
    /\ UNCHANGED <<exitCode, cfgVars, mDirectories, mAlwaysOverwriteFiles, mLastRead, conVars,
                   envVars, dstDirs, dstFS, initVars, execVars, iterVars, srcPos, dstPath,
                   firstCodeLine, noticeOffset, commentEndPos, histVars>>

----------------------------------------------------------------------------
(* failures, wmain *)

\* the positions at which a file or enumeration call can fail
IoPcs == {"init_target", "init_mkdir", "execute", "iter_next", "cf_open", "cf_create", "cf_first", "cf_skip",
          "cf_notice", "cf_line", "cf_copy", "cf_close"}

\* a call of the wdul library or of the find functions throws
IoFail ==
    /\ pc \in IoPcs
    /\ pc = "init_target" => (mRecurse /\ initIdx <= Len(mDirectories))
    /\ pc = "init_mkdir" => initIdx <= Len(mDirectories)
    /\ pc = "execute" => MoreTargets
    /\ pc' = "throw"
    /\ UNCHANGED <<exitCode, cfgVars, mDirectories, mAlwaysOverwriteFiles, mLastRead, conVars,
                   envVars, dstDirs, dstFS, initVars, execVars, iterVars, cfVars, histVars>>

Wmain_CatchReturnsZero ==
    /\ pc = "throw"
    /\ exitCode' = 0
    /\ pc' = "exit"
    /\ UNCHANGED <<cfgVars, mDirectories, mAlwaysOverwriteFiles, mLastRead, conVars, envVars,
                   dstDirs, dstFS, initVars, execVars, iterVars, cfVars, histVars>>

\* catch (std::exception const&): report_exception, return 1
Wmain_Catch ==
    /\ pc = "throw"
    /\ exitCode' = 1
    /\ pc' = "exit"
    /\ UNCHANGED <<cfgVars, mDirectories, mAlwaysOverwriteFiles, mLastRead, conVars, envVars,
                   dstDirs, dstFS, initVars, execVars, iterVars, cfVars, histVars>>

NextInit ==
    \/ Init_Target
    \/ Init_Dedup
    \/ Init_CreateDirectory
    \/ IoFail
    \/ Wmain_Catch

NextRun ==
    \/ Execute_Iterate
    \/ Execute_Done
    \/ Iterate_Entry
    \/ Iterate_AfterCreate
    \/ Iterate_FindNext
    \/ CF_Open
    \/ CF_Check
    \/ CF_Prompt
    \/ CF_Create
    \/ CF_ReadFirst
    \/ CF_Skip
    \/ CF_WriteNoticeLine
    \/ CF_WriteFirstLine
    \/ CF_Copy
    \/ CF_Close
    \/ IoFail
    \/ Wmain_Catch

\* wmain from its entry to its return
NextAll ==
    \/ NextArgs
    \/ Init_Target
    \/ Init_Dedup
    \/ Init_CreateDirectory
    \/ NextRun

\* ask_yesno, called by create_file
NextConsole ==
    \/ AskYesNo_Read
    \/ Console_Enter
    \/ Console_Read
    \/ Console_Resize
    \/ AskYesNo_Test
    \/ Wmain_Catch

----------------------------------------------------------------------------
(* The inputs: command lines and file systems *)

PairAD == [src |-> <<ROOT>>, dst |-> <<"D">>]
PairAE == [src |-> <<ROOT>>, dst |-> <<"E">>]
PairABE == [src |-> <<ROOT, SEP, "B">>, dst |-> <<"E">>]
PairAsBE == [src |-> <<ROOT, "/", "B">>, dst |-> <<"E">>]
Commented == <<"/", "/", " ", CR, LF, "x">>

Old == <<"o">>
NoEntry == [kind |-> "none", data |-> <<>>]
File(data) == [kind |-> "file", data |-> data]
Hidden == [kind |-> "hidden", data |-> <<"x">>]
Dir == [kind |-> "dir", data |-> <<>>]

SrcPaths == {SrcPath(<<ROOT>>, n) : n \in FileNames}
DstPaths == {DstPath(d, n) : d \in {<<"D">>, <<"E">>}, n \in FileNames}

\* the bodies of the lines of the source files
Bodies == {<<>>, <<"x">>, <<"/">>, <<"/", "/">>, <<CR>>}

RECURSIVE TerminatedLines(_)
TerminatedLines(k) ==
    IF k = 0 THEN {<<>>}
    ELSE {b \o newline \o r : b \in Bodies, r \in TerminatedLines(k - 1)}

\* files of at most MaxLines lines, the last one with or without its CR LF
Sources ==
    UNION {TerminatedLines(k) : k \in 0..MaxLines}
    \cup UNION {{t \o b : t \in TerminatedLines(k - 1), b \in Bodies \ {<<>>}} : k \in 1..MaxLines}

Notices == SeqsUpTo({"n", CR, LF}, MaxNoticeLen)

\* the source trees of at most n entries below ROOT
RECURSIVE TreeShapes(_)
TreeShapes(n) ==
    IF n = 0 THEN {{}}
    ELSE LET smaller == TreeShapes(n - 1)
         IN  smaller \cup
             UNION {{T \cup {p \o <<ChildNames[i]>>} :
                        p \in T \cup {<<ROOT>>}, i \in 1..Len(ChildNames)} : T \in smaller}

Trees ==
    UNION {{t \in [T -> {"dir", "hidden", "file"}] :
               \A p \in T : Len(p) > 2 => t[SubSeq(p, 1, Len(p) - 1)] # "file"} :
           T \in TreeShapes(MaxNodes)}

\* the members and locals no argument sets
InitLocals ==
    /\ exitCode = -1
    /\ mAlwaysOverwriteFiles = FALSE
    /\ mLastRead = <<>>
    /\ conIn = <<>>
    /\ numRead = 0
    /\ entered = <<>>
    /\ newDirectories = <<>>
    /\ initIdx = 1
    /\ dirIdx = 1
    /\ extIdx = 1
    /\ filesCreated = 0
    /\ iterCreated = 0
    /\ findData = ""
    /\ findRemaining = {}
    /\ srcPos = 0
    /\ dstPath = <<>>
    /\ firstCodeLine = <<>>
    /\ noticeOffset = 0
    /\ commentEndPos = 0
    /\ cfResult = "none"
    /\ prompts = 0
    /\ yesAnswers = 0

\* the state in which init starts to expand the directories: the argument
\* loop is over, the command line itself is not part of these runs
InitCommon ==
    /\ Args = <<>>
    /\ argIdx = 1
    /\ mVerbose = FALSE
    /\ noticeSources = <<"note">>
    /\ argDirs = mDirectories
    /\ InitLocals

\* init, from the expansion of the directories on
InitDirs ==
    /\ pc = "init_target"
    /\ mRecurse \in BOOLEAN
    /\ mReplace = FALSE
    /\ mCommentPrefix = <<"/", "/", " ">>
    /\ mNotice = <<"n">>
    /\ mExtensions = <<>>
    /\ mDirectories \in SeqsUpTo({PairAD, PairAE, PairABE, PairAsBE}, MaxDirs)
    /\ tree \in Trees
    /\ dstDirs = {}
    /\ srcFS = [p \in SrcPaths |-> NoEntry]
    /\ dstFS = [p \in DstPaths |-> [exists |-> FALSE, data |-> <<>>]]
    /\ InitCommon

\* execute, after init has returned true
InitExecute ==
    /\ pc = "execute"
    /\ mRecurse = FALSE
    /\ tree = <<>>
    /\ dstDirs = {Resolve(mDirectories[i].dst) : i \in 1..Len(mDirectories)}
    /\ InitCommon

\* runs over several targets and small files
InitRun ==
    /\ mReplace = TRUE
    /\ mCommentPrefix = <<"/", "/", " ">>
    /\ mNotice = <<"n">>
    /\ mExtensions \in SeqsUpTo(Exts, MaxExts)
    /\ mDirectories \in SeqsUpTo({PairAD, PairAE}, MaxDirs)
    /\ \E a \in {Hidden, Dir, File(<<>>), File(Commented)}, b \in {NoEntry, File(<<>>)} :
          srcFS = [p \in SrcPaths |->
                      IF p = SrcPath(<<ROOT>>, "f.h") THEN a
                      ELSE IF p = SrcPath(<<ROOT>>, "g.h") THEN b
                      ELSE File(<<"x">>)]
    /\ \E e \in BOOLEAN :
          dstFS = [p \in DstPaths |-> [exists |-> e /\ p[1] = "D", data |-> IF e /\ p[1] = "D" THEN Old ELSE <<>>]]
    /\ InitExecute

\* one target with one visible file
InitOneFile(sources, notices, prefixes) ==
    /\ mReplace \in BOOLEAN
    /\ mCommentPrefix \in prefixes
    /\ mNotice \in notices
    /\ mExtensions = <<"h">>
    /\ mDirectories = <<PairAD>>
    /\ \E data \in sources :
          srcFS = [p \in SrcPaths |->
                      IF p = SrcPath(<<ROOT>>, "f.h") THEN File(data)
                      ELSE IF p = SrcPath(<<ROOT>>, "g.h") THEN Hidden
                      ELSE NoEntry]
    /\ \E e \in BOOLEAN :
          dstFS = [p \in DstPaths |->
                      IF p = DstPath(<<"D">>, "f.h") /\ e
                      THEN [exists |-> TRUE, data |-> Old]
                      ELSE [exists |-> FALSE, data |-> <<>>]]
    /\ InitExecute

InitFile == InitOneFile(Sources, {<<>>, <<"n">>}, {<<"/">>, <<"/", "/">>})

InitNotice ==
    InitOneFile({<<"x">>, <<"/", "/", CR, LF, "x", CR, LF, "x">>}, Notices,
                {<<"/">>, <<"/", "/">>})


\* the strings of the command lines
Name(name) == <<"/">> \o name
DirArg(src, dst) == <<Name(<<"d", "i", "r">>), src, dst>>
ExtArg(e) == <<Name(<<"e", "x", "t">>), e>>
NoteArg(str) == <<Name(<<"n", "o", "t", "e">>), str>>
NotefArg(name) == <<Name(<<"n", "o", "t", "e", "f">>), name>>
SyntaxArg(prefix) == <<Name(<<"s", "y", "n", "t", "a", "x">>), prefix>>

\* arguments with their subarguments, well-formed and not
ArgumentGroups ==
    {DirArg(<<ROOT>>, <<"E">>), DirArg(<<ROOT, SEP>>, <<"E">>), ExtArg(<<"h">>), ExtArg(<<"h", ".">>),
     NoteArg(<<"n">>), NoteArg(<<>>), NoteArg(<<"e'">>), <<Name(<<"n", "o", "t", "e">>)>>,
     NotefArg(<<"N">>), NotefArg(<<"Z">>), NotefArg(<<"Q">>),
     SyntaxArg(<<"#">>), <<Name(<<"r", "e", "c", "u", "r", "s", "e">>)>>,
     <<Name(<<"r", "e", "p", "l", "a", "c", "e">>)>>,
     <<Name(<<"v", "e", "r", "b", "o", "s", "e">>)>>,
     <<Name(<<"v", "e", "r", "b", "o", "s", "e", "x">>)>>,
     <<Name(<<"x">>)>>, <<<<"x">>>>}

RECURSIVE Concat(_)
Concat(groups) == IF groups = <<>> THEN <<>> ELSE Head(groups) \o Concat(Tail(groups))

\* nothing or "/dir A D /ext h", then at most MaxArgs further arguments
CommandLines ==
    {pre \o Concat(gs) : pre \in {<<>>, DirArg(<<ROOT>>, <<"D">>) \o ExtArg(<<"h">>)},
                         gs \in SeqsUpTo(ArgumentGroups, MaxArgs)}

\* wmain is entered: a command line, the members as the constructor leaves them,
\* a source directory A holding f.h, a destination that may hold D\f.h
InitArgs ==
    /\ pc = "init"
    /\ Args \in CommandLines
    /\ argIdx = 1
    /\ mVerbose = FALSE
    /\ noticeSources = <<>>
    /\ mRecurse = FALSE
    /\ mReplace = FALSE
    /\ mCommentPrefix = <<"/", "/", " ">>
    /\ mDirectories = <<>>
    /\ mExtensions = <<>>
    /\ mNotice = <<>>
    /\ argDirs = <<>>
    /\ tree = <<>>
    /\ dstDirs = {}
    /\ srcFS = [p \in SrcPaths |-> IF p = SrcPath(<<ROOT>>, "f.h") THEN File(Commented) ELSE NoEntry]
    /\ \E e \in BOOLEAN :
          dstFS = [p \in DstPaths |->
                      IF p = DstPath(<<"D">>, "f.h") /\ e
                      THEN [exists |-> TRUE, data |-> Old]
                      ELSE [exists |-> FALSE, data |-> <<>>]]
    /\ InitLocals

\* create_file has written the overwrite prompt for D\f.h and calls ask_yesno
InitConsole ==
    /\ mReplace = FALSE
    /\ mCommentPrefix = <<"/", "/", " ">>
    /\ mNotice = <<"n">>
    /\ mExtensions = <<"h">>
    /\ mDirectories = <<PairAD>>
    /\ mRecurse = FALSE
    /\ tree = <<>>
    /\ dstDirs = {<<"D">>}
    /\ srcFS = [p \in SrcPaths |-> IF p = SrcPath(<<ROOT>>, "f.h") THEN File(<<"x">>) ELSE NoEntry]
    /\ dstFS = [p \in DstPaths |->
                  IF p = DstPath(<<"D">>, "f.h")
                  THEN [exists |-> TRUE, data |-> Old]
                  ELSE [exists |-> FALSE, data |-> <<>>]]
    /\ pc = "ask"
    /\ exitCode = -1
    /\ Args = <<>>
    /\ argIdx = 1
    /\ mVerbose = FALSE
    /\ noticeSources = <<"note">>
    /\ argDirs = mDirectories
    /\ mAlwaysOverwriteFiles = FALSE
    /\ mLastRead = <<>>
    /\ conIn = <<>>
    /\ numRead = 0
    /\ entered = <<>>
    /\ newDirectories = <<>>
    /\ initIdx = 1
    /\ dirIdx = 1
    /\ extIdx = 1
    /\ filesCreated = 0
    /\ iterCreated = 0
    /\ findData = "f.h"
    /\ findRemaining = {}
    /\ srcPos = 0
    /\ dstPath = DstPath(<<"D">>, "f.h")
    /\ firstCodeLine = <<>>
    /\ noticeOffset = 0
    /\ commentEndPos = 0
    /\ cfResult = "none"
    /\ prompts = 1
    /\ yesAnswers = 0

Spec == InitRun /\ [][NextRun]_vars
SpecFile == InitFile /\ [][NextRun]_vars
SpecNotice == InitNotice /\ [][NextRun]_vars
SpecDirs == InitDirs /\ [][NextInit]_vars
SpecArgs == InitArgs /\ [][NextAll]_vars
SpecConsole == InitConsole /\ [][NextConsole]_vars

----------------------------------------------------------------------------
(* Properties: the notice block and the copied content (create_file) *)

\* the first 1-based position of CR LF in s, 0 if there is none
FirstCRLF(s) ==
    IF \E i \in 1..(Len(s) - 1) : s[i] = CR /\ s[i + 1] = LF
    THEN CHOOSE i \in 1..(Len(s) - 1) :
            /\ s[i] = CR /\ s[i + 1] = LF
            /\ \A j \in 1..(i - 1) : ~(s[j] = CR /\ s[j + 1] = LF)
    ELSE 0

RECURSIVE Segments(_)
\* the CRLF-separated segments of a text
Segments(s) ==
    IF FirstCRLF(s) = 0 THEN <<s>>
    ELSE <<SubSeq(s, 1, FirstCRLF(s) - 1)>> \o Segments(SubSeq(s, FirstCRLF(s) + 2, Len(s)))

RECURSIVE CommentLines(_, _)
\* prefix + segment + CRLF for each segment, in order
CommentLines(prefix, segs) ==
    IF segs = <<>> THEN <<>>
    ELSE prefix \o Head(segs) \o <<CR, LF>> \o CommentLines(prefix, Tail(segs))

NoticeBlock == CommentLines(mCommentPrefix, Segments(mNotice))

IsPrefixOf(p, s) == Len(p) <= Len(s) /\ \A i \in 1..Len(p) : s[i] = p[i]

\* the first line of a file, without its terminator
FirstLineOf(s) == IF FirstCRLF(s) = 0 THEN s ELSE SubSeq(s, 1, FirstCRLF(s) - 1)

\* the file after its first line and that line's terminator
AfterFirstLine(s) == IF FirstCRLF(s) = 0 THEN <<>> ELSE SubSeq(s, FirstCRLF(s) + 2, Len(s))

RECURSIVE StripLeadingComments(_, _)
\* a file without its leading lines that start with the prefix
StripLeadingComments(prefix, s) ==
    IF s # <<>> /\ IsPrefixOf(prefix, FirstLineOf(s))
    THEN StripLeadingComments(prefix, AfterFirstLine(s))
    ELSE s

\* create_file has written a destination file and returned
Written == pc = "cf_ret" /\ cfResult = "written"
dstData == dstFS[dstPath].data

\* C1: every destination file written from a source with a first line begins
\* with one line prefix + segment + CRLF per CRLF-separated segment of the
\* notice, in order, and the retained first source line follows directly.
Thm_C1 ==
    Written =>
        /\ Len(dstData) >= Len(NoticeBlock) + Len(firstCodeLine)
        /\ SubSeq(dstData, 1, Len(NoticeBlock)) = NoticeBlock
        /\ SubSeq(dstData, Len(NoticeBlock) + 1, Len(NoticeBlock) + Len(firstCodeLine))
              = firstCodeLine

\* a file written under a notice that ends in CRLF: two segments, the last
\* one empty, and two comment lines in the file
Wit_C1 ==
    /\ Written
    /\ Segments(mNotice) = <<<<"n", "n">>, <<>>>>
    /\ dstData = mCommentPrefix \o <<"n", "n", CR, LF>> \o mCommentPrefix \o <<CR, LF, "x", CR, LF>>

\* C2: when the first line does not start with the prefix, or replaceExisting
\* is false, the destination equals notice block + source, byte for byte.
Claim_C2 ==
    (Written /\ (~IsPrefixOf(mCommentPrefix, FirstLineOf(srcData)) \/ ~mReplace))
        => dstData = NoticeBlock \o srcData

\* C3: with replaceExisting, the destination after the notice block equals
\* the source without its leading prefixed lines.
Claim_C3 ==
    (Written /\ IsPrefixOf(mCommentPrefix, FirstLineOf(srcData)) /\ mReplace)
        => dstData = NoticeBlock \o StripLeadingComments(mCommentPrefix, srcData)

\* the positions of create_file up to the first read of the source
BeforeNotice == {"cf_open", "cf_check", "cf_prompt", "cf_create", "cf_first"}

\* C4 as stated: on an empty source file no destination file is created, an
\* existing one keeps its content, and no overwrite prompt is issued.
Claim_C4 ==
    [][(pc \in BeforeNotice /\ srcData = <<>>) => (dstFS' = dstFS /\ prompts' = prompts)]_vars

\* C4: on an empty source file the destination is created or truncated before
\* the source is read: unless the prompt was declined, create_file returns
\* through the empty-file return with a zero-byte file at the destination; the
\* prompt is issued exactly when the destination exists and the policy is to ask.
Thm_C4 ==
    /\ (pc = "cf_ret" /\ cfResult # "declined") =>
          /\ (srcData = <<>>) <=> (cfResult = "empty")
          /\ cfResult = "empty" => dstFS[dstPath] = [exists |-> TRUE, data |-> <<>>]
    /\ (pc = "cf_prompt" /\ srcData = <<>>) =>
          (~mAlwaysOverwriteFiles /\ dstFS[dstPath].exists)
    /\ (pc = "cf_create" /\ srcData = <<>> /\ dstFS[dstPath].exists) =>
          mAlwaysOverwriteFiles

\* an existing destination truncated to nothing for an empty source
Wit_C4 ==
    /\ pc = "cf_ret"
    /\ cfResult = "empty"
    /\ srcData = <<>>
    /\ yesAnswers = 1
    /\ dstFS[dstPath] = [exists |-> TRUE, data |-> <<>>]

----------------------------------------------------------------------------
(* Properties: the counter, the overwrite prompt, failures (execute) *)

\* C5 as stated: an empty source file does not increment the counter.
Claim_C5 ==
    [][(pc = "cf_ret" /\ srcData = <<>>) => iterCreated' = iterCreated]_vars

\* C5: create_file returns true on an empty source file, so unless the prompt
\* was declined the file is counted: iterate's counter goes up by one, and
\* iterate's count is added to the total that execute reports.
Thm_C5 ==
    [][/\ (pc = "cf_ret" /\ srcData = <<>> /\ cfResult # "declined")
             => iterCreated' = iterCreated + 1
       /\ (pc = "iter_next" /\ pc' = "execute")
             => filesCreated' = filesCreated + iterCreated]_vars

\* two empty source files of one target, both counted
Wit_C5 ==
    /\ pc = "iter_next"
    /\ iterCreated = 2
    /\ findRemaining = {}
    /\ \A n \in {"f.h", "g.h"} : srcFS[SrcPath(Directories.src, n)] = File(<<>>)

\* C6: when the user answers no to the prompt, create_file returns false, the
\* existing destination file is unchanged, the counters are not incremented
\* and the policy stays "ask every time".
Thm_C6 ==
    [][/\ (pc = "cf_prompt" /\ mLastRead' \in AnswerNo) =>
            /\ pc' = "cf_ret"
            /\ cfResult' = "declined"
            /\ dstFS' = dstFS
            /\ ~mAlwaysOverwriteFiles /\ ~mAlwaysOverwriteFiles'
            /\ iterCreated' = iterCreated /\ filesCreated' = filesCreated
       /\ (pc = "cf_ret" /\ cfResult = "declined") =>
            /\ pc' = "iter_next"
            /\ dstFS' = dstFS
            /\ dstFS[dstPath].exists
            /\ ~mAlwaysOverwriteFiles'
            /\ iterCreated' = iterCreated /\ filesCreated' = filesCreated
       /\ pc \in {"cf_open", "cf_check", "cf_prompt"} => dstFS' = dstFS]_vars

\* a declined file behind it, the run prompts again for the next existing file
Wit_C6 ==
    /\ pc = "cf_prompt"
    /\ prompts = 2
    /\ yesAnswers = 0
    /\ mLastRead \in AnswerNo
    /\ iterCreated = 0
    /\ \A p \in DstPaths : dstFS[p].exists => dstFS[p].data = Old

\* C7: the policy starts as "ask every time", is "always overwrite" exactly
\* when an affirmative answer was given, never returns to "ask every time";
\* there is at most one affirmative answer, no prompt after it, and a prompt
\* only for an existing destination under "ask every time".
Thm_C7 ==
    /\ ~mAlwaysOverwriteFiles
    /\ [][/\ mAlwaysOverwriteFiles => (mAlwaysOverwriteFiles' /\ prompts' = prompts)
          /\ mAlwaysOverwriteFiles' <=> (yesAnswers' > 0)
          /\ yesAnswers' <= 1
          /\ (~mAlwaysOverwriteFiles /\ mAlwaysOverwriteFiles') =>
                (pc = "cf_prompt" /\ mLastRead' \in AnswerYes)
          /\ prompts' # prompts =>
                (prompts' = prompts + 1 /\ ~mAlwaysOverwriteFiles /\ dstFS[dstPath].exists)
          /\ pc' = "cf_prompt" => (~mAlwaysOverwriteFiles' /\ dstFS'[dstPath'].exists)]_vars

\* after the affirmative answer a later existing file is overwritten unasked
Wit_C7 ==
    /\ pc = "cf_create"
    /\ mAlwaysOverwriteFiles
    /\ dstFS[dstPath].exists
    /\ prompts = 1
    /\ yesAnswers = 1
    /\ filesCreated + iterCreated >= 1

\* C10: a failure of a file or enumeration call ends the run: the exception
\* reaches the catch block of wmain, which returns non-zero; on the way nothing
\* is opened, prompted for or written and the destination files stay as they
\* are; nothing happens after wmain has returned; wmain returns 0 only when
\* execute has gone through all its targets.
Thm_C10 ==
    [][/\ pc = "throw" =>
            /\ pc' = "exit"
            /\ exitCode' # 0
            /\ dstFS' = dstFS
            /\ <<prompts, yesAnswers, mLastRead, filesCreated, iterCreated, srcPos>>'
                  = <<prompts, yesAnswers, mLastRead, filesCreated, iterCreated, srcPos>>
       /\ pc # "exit"
       /\ pc' = "throw" => (pc \in IoPcs /\ dstFS' = dstFS)
       /\ pc' = "exit" =>
            /\ exitCode' \in {0, 1}
            /\ exitCode' = 0 => (pc = "execute" /\ ~MoreTargets /\ cfResult = "none")]_vars

\* the run ended with a destination file cut off after the notice block
Wit_C10 ==
    /\ pc = "exit"
    /\ exitCode = 1
    /\ dstFS[DstPath(<<"D">>, "f.h")] = [exists |-> TRUE, data |-> NoticeBlock]
    /\ srcFS[SrcPath(<<ROOT>>, "f.h")] = File(Commented)

----------------------------------------------------------------------------
(* Properties: the directory list (init) *)

ChildNameSet == {ChildNames[i] : i \in 1..Len(ChildNames)}

RECURSIVE JoinPath(_, _)
\* base\c1\c2\... for the components of rel
JoinPath(base, rel) ==
    IF rel = <<>> THEN base ELSE JoinPath(base \o <<SEP, Head(rel)>>, Tail(rel))

\* the relative paths below root that lead through non-hidden directories only
ReachableBelow(root) ==
    {rel \in SeqsUpTo(ChildNameSet, MaxNodes) :
        \A k \in 1..Len(rel) : KindOf(root \o SubSeq(rel, 1, k)) = "dir"}

MirroredPairs(dirArg) ==
    {[src |-> JoinPath(dirArg.src, rel), dst |-> JoinPath(dirArg.dst, rel)] :
        rel \in ReachableBelow(Resolve(dirArg.src))}

InitReturnedTrue == pc = "execute"

\* C8: with recurse and one configured pair (A, D) the list holds, once each,
\* the pair for A and the pair (A\p, D\p) for every directory A\p reachable
\* through non-hidden directories; without recurse it holds the configured pairs.
Thm_C8 ==
    InitReturnedTrue =>
        /\ (mRecurse /\ Len(argDirs) = 1) =>
              /\ mDirectories[1] = argDirs[1]
              /\ {mDirectories[i] : i \in 1..Len(mDirectories)} = MirroredPairs(argDirs[1])
              /\ Len(mDirectories) = Cardinality(MirroredPairs(argDirs[1]))
        /\ ~mRecurse => mDirectories = argDirs

\* a hidden directory with a directory in it is left out, its sibling is listed
Wit_C8 ==
    /\ InitReturnedTrue
    /\ mRecurse
    /\ argDirs = <<PairAD>>
    /\ KindOf(<<ROOT, "B">>) = "hidden"
    /\ KindOf(<<ROOT, "B", "C">>) = "dir"
    /\ KindOf(<<ROOT, "C">>) = "dir"
    /\ mDirectories = <<PairAD, [src |-> <<ROOT, SEP, "C">>, dst |-> <<"D", SEP, "C">>]>>

\* C9 as stated: no two pairs of the final list have the same source path.
Claim_C9 ==
    InitReturnedTrue =>
        \A i, j \in 1..Len(mDirectories) : i # j => mDirectories[i].src # mDirectories[j].src

\* C9: the configured pairs are kept as given, in order, also when two of
\* them name the same source; every pair added by the expansion has a source
\* path string that no other pair of the list has.
Thm_C9 ==
    pc \in {"init_mkdir", "execute"} =>
        /\ Len(mDirectories) >= Len(argDirs)
        /\ SubSeq(mDirectories, 1, Len(argDirs)) = argDirs
        /\ \A i \in (Len(argDirs) + 1)..Len(mDirectories) :
              /\ \A j \in 1..Len(mDirectories) :
                    i # j => mDirectories[i].src # mDirectories[j].src
              /\ \E k \in 1..Len(newDirectories) : newDirectories[k] = mDirectories[i]

\* an expanded pair was dropped as already targeted, another one was kept
Wit_C9 ==
    /\ InitReturnedTrue
    /\ Len(mDirectories) > Len(argDirs)
    /\ Len(mDirectories) < Len(argDirs) + Len(newDirectories)
    /\ argDirs = <<PairABE, PairAD>>

----------------------------------------------------------------------------
(* C11 *)

NoticeArgumentNames == {Name(<<"n", "o", "t", "e">>), Name(<<"n", "o", "t", "e", "f">>)}
NoNoticeArgument == \A i \in 1..Len(Args) : Args[i] \notin NoticeArgumentNames
CreateFilePcs == {"cf_open", "cf_check", "cf_prompt", "cf_create", "cf_first", "cf_skip",
                  "cf_notice", "cf_line", "cf_copy", "cf_close", "cf_ret"}
NoDestinationWritten ==
    \A p \in DstPaths : dstFS[p] \in {[exists |-> FALSE, data |-> <<>>],
                                      [exists |-> TRUE, data |-> Old]}

\* C11: a run whose command line has neither /note nor /notef never leaves the
\* argument loop other than by init returning false and wmain returning 1, and
\* it writes no destination file; the notice is non-empty whenever create_file
\* runs; at most one of /note and /notef assigns the notice in one run.
Claim_C11 ==
    /\ NoNoticeArgument =>
          /\ pc \in {"init", "init_args", "init_false", "exit"}
          /\ pc = "exit" => exitCode = 1
          /\ NoDestinationWritten
    /\ pc \in CreateFilePcs => mNotice # <<>>
    /\ Len(noticeSources) <= 1

----------------------------------------------------------------------------
(* C12 *)

\* C12: ask_yesno returns true only when the one line entered is "y" or "yes",
\* false only when it is "n" or "no"; after any other line, of any length,
\* console::read returns a string that ask_yesno answers with "Invalid input"
\* and another round, and nothing is thrown.
Claim_C12 ==
    /\ pc = "ask_true" => Len(entered) = 1 /\ entered[1] \in AnswerYes
    /\ pc = "ask_false" => Len(entered) = 1 /\ entered[1] \in AnswerNo
    /\ (pc = "ask_test" /\ entered[1] \notin AnswerYes \cup AnswerNo) =>
          AskYesNo(mLastRead) = "invalid"
    /\ pc \notin {"throw", "exit"}

----------------------------------------------------------------------------
(* C13 *)

ParentOf(d) == SubSeq(d, 1, Len(d) - 1)
FinalDst(i) == Resolve(mDirectories[i].dst)

\* C13: in the list init creates the destination directories from, every pair
\* appended by the expansion comes after a pair whose destination is the parent
\* of its own destination, and the directory CreateDirectoryW is about to be
\* called for exists already, is a destination root, or has an existing parent.
Claim_C13 ==
    /\ pc \in {"init_mkdir", "execute"} =>
          \A i \in (Len(argDirs) + 1)..Len(mDirectories) :
              \E j \in 1..(i - 1) : FinalDst(j) = ParentOf(FinalDst(i))
    /\ (pc = "init_mkdir" /\ initIdx <= Len(mDirectories)) =>
          \/ FinalDst(initIdx) \in dstDirs
          \/ Len(FinalDst(initIdx)) = 1
          \/ ParentOf(FinalDst(initIdx)) \in dstDirs


====
